---- MODULE Spec2Model ----
(***************************************************************************)
(* Model of src/model/generate_dataset.py: for every pull-request snapshot  *)
(* the three event streams are merged into one timeline and every commit    *)
(* event is turned into a (prompt, completion) example under a token        *)
(* budget.                                                                  *)
(*                                                                          *)
(* Texts are sequences of units (characters).  A unit is a pair             *)
(* <<source, index>> naming the piece of input it was rendered from, so a   *)
(* prompt records which events it renders.  Timestamps are 1..MaxTs, 0 is   *)
(* an absent or empty timestamp.  Text lengths are scaled down: a blank     *)
(* text has length 0.  The oid of a commit is its index in commitsMeta.     *)
(* The tokenizer is the library's; here a token is two units of text, so    *)
(* that encoding is lossless and a measure in tokens differs from one in    *)
(* characters.  Of the two output formats the rows are the same; lines      *)
(* stands for lines and csv_rows.                                           *)
(***************************************************************************)
EXTENDS Integers, Sequences, FiniteSets, TLC

MaxTs == 2
MaxCommits == 2

VARIABLES snapshots, preexisting, max_context, existing, written,
          k, pc, events, i, past, lines, prompt, completion,
          run, firstRun

vars == <<snapshots, preexisting, max_context, existing, written,
          k, pc, events, i, past, lines, prompt, completion,
          run, firstRun>>

(***************************************************************************)
(* Texts and the tokenizer                                                  *)
(***************************************************************************)
H == <<"hdr", 0>>
NL == <<"nl", 0>>

Unit(e) == <<e.kind, e.idx>>

Text(u, n) == [j \in 1..n |-> u]

RECURSIVE Join(_)
Join(parts) ==
    IF Len(parts) = 0 THEN <<>>
    ELSE IF Len(parts) = 1 THEN parts[1]
    ELSE parts[1] \o <<NL>> \o Join(Tail(parts))

\* tokenizer.encode: the text is cut, from its start, into tokens of two
\* units; a last single unit is a token of its own.
RECURSIVE Encode(_)
Encode(text) ==
    IF Len(text) = 0 THEN <<>>
    ELSE IF Len(text) = 1 THEN <<text>>
    ELSE <<SubSeq(text, 1, 2)>> \o Encode(SubSeq(text, 3, Len(text)))

\* tokenizer.decode: the tokens' texts, concatenated.
RECURSIVE Decode(_)
Decode(tokens) ==
    IF Len(tokens) = 0 THEN <<>> ELSE Head(tokens) \o Decode(Tail(tokens))

\* Python's tokens[-n:]
FirstTokens(tokens, n) ==
    SubSeq(tokens, 1, IF n < Len(tokens) THEN n ELSE Len(tokens))

LastTokens(tokens, n) ==
    IF n > 0
    THEN (IF n >= Len(tokens) THEN tokens
          ELSE SubSeq(tokens, Len(tokens) - n + 1, Len(tokens)))
    ELSE SubSeq(tokens, 1 - n, Len(tokens))

(***************************************************************************)
(* Timeline merger                                                          *)
(***************************************************************************)
CommentEvents(pr) ==
    SelectSeq([j \in 1..Len(pr.comments) |->
                 [kind |-> "comment", ts |-> pr.comments[j].createdAt, idx |-> j,
                  body |-> pr.comments[j].body, hunk |-> 0, diff |-> 0]],
              LAMBDA e : e.ts # 0)

ReviewEvents(pr) ==
    SelectSeq([j \in 1..Len(pr.reviewComments) |->
                 [kind |-> "review", ts |-> pr.reviewComments[j].createdAt, idx |-> j,
                  body |-> pr.reviewComments[j].body,
                  hunk |-> pr.reviewComments[j].diffHunk, diff |-> 0]],
              LAMBDA e : e.ts # 0)

\* The diff of a commit is the content of its diff file (0: no such file).
CommitEvents(pr) ==
    SelectSeq([j \in 1..Len(pr.commitsMeta) |->
                 [kind |-> "commit", ts |-> pr.commitsMeta[j].committedDate, idx |-> j,
                  body |-> 0, hunk |-> 0, diff |-> pr.commitsMeta[j].diffFile]],
              LAMBDA e : e.ts # 0)

\* events, before the sort: comments, then reviews, then commits.
Tagged(pr) == CommentEvents(pr) \o ReviewEvents(pr) \o CommitEvents(pr)

Unsorted(s) == s

InsertBeforeTies(sorted, x) ==
    LET n == Cardinality({j \in 1..Len(sorted) : sorted[j].ts < x.ts})
    IN  SubSeq(sorted, 1, n) \o <<x>> \o SubSeq(sorted, n + 1, Len(sorted))

\* One step of the stable sort: x goes after every element whose key is not
\* greater than its own.
InsertByTs(sorted, x) ==
    LET n == Cardinality({j \in 1..Len(sorted) : sorted[j].ts <= x.ts})
    IN  SubSeq(sorted, 1, n) \o <<x>> \o SubSeq(sorted, n + 1, Len(sorted))

RECURSIVE StableSort(_)
StableSort(s) ==
    IF Len(s) = 0 THEN <<>>
    ELSE InsertByTs(StableSort(SubSeq(s, 1, Len(s) - 1)), s[Len(s)])

SortByTs(s) == StableSort(s)

(***************************************************************************)
(* Example synthesizer: rendering                                           *)
(***************************************************************************)
\* "PR #n: title", "Body: body" and, when there are labels, "Labels: ...".
HeaderParts(pr) ==
    <<Text(H, 1), Text(H, 1)>> \o (IF pr.labels THEN <<Text(H, 1)>> ELSE <<>>)

\* The backward search of the history buffer; 0 is Python's None.
LastCommitIdx(p) ==
    LET C == {j \in 1..Len(p) : p[j].kind = "commit"}
    IN  IF C = {} THEN 0 ELSE CHOOSE j \in C : \A m \in C : m <= j

EventsBetween(p, lci) == SubSeq(p, lci + 1, Len(p))

PrevBlockOnTies(p, lci, commit_date) ==
    IF lci # 0 /\ p[lci].ts <= commit_date
    THEN <<Text(Unit(p[lci]), 1 + p[lci].diff)>>
    ELSE <<>>

\* "Last commit <oid> - <message>\nDiff:\n<diff>", only for a previous commit
\* dated before the current one.
PrevBlock(p, lci, commit_date) ==
    IF lci # 0 /\ p[lci].ts < commit_date
    THEN <<Text(Unit(p[lci]), 1 + p[lci].diff)>>
    ELSE <<>>

RenderEvent(e) ==
    IF e.kind = "comment"
    THEN (IF e.body # 0 THEN <<Text(Unit(e), 1 + e.body)>> ELSE <<>>)
    ELSE IF e.kind = "review"
    THEN (IF e.body # 0 \/ e.hunk # 0
          THEN <<Text(Unit(e), 1 + e.body + e.hunk)>> ELSE <<>>)
    ELSE <<>>

RECURSIVE SegmentParts(_)
SegmentParts(seg) ==
    IF Len(seg) = 0 THEN <<>> ELSE RenderEvent(Head(seg)) \o SegmentParts(Tail(seg))

UserPartsPrevLast(pr, p, e) ==
    LET lci == LastCommitIdx(p)
    IN  HeaderParts(pr) \o SegmentParts(EventsBetween(p, lci)) \o PrevBlock(p, lci, e.ts)

UserParts(pr, p, e) ==
    LET lci == LastCommitIdx(p)
    IN  HeaderParts(pr) \o PrevBlock(p, lci, e.ts) \o SegmentParts(EventsBetween(p, lci))

\* "Commit <oid>\nDiff:\n<diff_text>"
Completion(e) == Text(Unit(e), 1 + e.diff)

NeverEmpty(e) == FALSE

\* not diff_text.strip()
DiffIsEmpty(e) == e.diff = 0

RoomOrNone(n) == n >= 0

HasRoom(n) == n > 0

KeepFirst(tokens, n) == Decode(FirstTokens(tokens, n))

\* The truncated prompt: the last n tokens, decoded.
Truncated(tokens, n) == Decode(LastTokens(tokens, n))

Row(e, p, c) == [prompt |-> p, completion |-> c, id |-> e.idx, date |-> e.ts]

(***************************************************************************)
(* Inputs                                                                   *)
(***************************************************************************)
PrNumbers == {1, 2}
DiffLens == {0, 1, 5}
ContextSizes == {1, 2, 8}

CommentRecs == [createdAt : 1..MaxTs, body : {0, 1}]

ReviewRecs ==
    {[createdAt |-> t, body |-> b[1], diffHunk |-> b[2]] :
        t \in 1..MaxTs, b \in {<<1, 0>>, <<0, 1>>}}

CommitRecs == [committedDate : 1..MaxTs, diffFile : DiffLens]

AtMostOne(S) == {<<>>} \cup {<<x>> : x \in S}

SeqsUpTo(S, n) == UNION {[1..m -> S] : m \in 0..n}

\* Snapshots of one pull request whose records all carry a timestamp.
RichPRs ==
    [prNumber : {1}, labels : {FALSE}, comments : AtMostOne(CommentRecs),
     reviewComments : AtMostOne(ReviewRecs),
     commitsMeta : SeqsUpTo(CommitRecs, MaxCommits)]

\* Snapshots with the optional fields absent or blank: no number, labels,
\* records without a timestamp, a review with neither body nor hunk.
EdgePRs ==
    [prNumber : {0, 1}, labels : BOOLEAN,
     comments : AtMostOne([createdAt : {0, 1}, body : {1}]),
     reviewComments : AtMostOne({[createdAt |-> 0, body |-> 1, diffHunk |-> 0],
                                 [createdAt |-> 1, body |-> 0, diffHunk |-> 0]}),
     commitsMeta : SeqsUpTo([committedDate : {0, MaxTs}, diffFile : {1}], MaxCommits)]

\* A small family of snapshots, for the runs over two pull requests.
IsoPRs(nums) ==
    [prNumber : nums, labels : {FALSE},
     comments : AtMostOne([createdAt : 1..MaxTs, body : {1}]),
     reviewComments : {<<>>},
     commitsMeta : {<<c>> : c \in [committedDate : 1..MaxTs, diffFile : DiffLens]}]

NoFiles == [n \in PrNumbers |-> <<>>]

pr == snapshots[k]

TypeOK ==
    /\ k \in 1..(Len(snapshots) + 1)
    /\ pc \in {"next_pr", "loop", "rendered"}
    /\ i \in 1..(Len(events) + 1)
    /\ run \in {1, 2}
    /\ existing \subseteq PrNumbers

InitWith(ss, pre, mc) ==
    /\ snapshots = ss
    /\ preexisting = pre
    /\ max_context = mc
    /\ existing = pre
    /\ written = NoFiles
    /\ k = 1
    /\ pc = "next_pr"
    /\ events = <<>>
    /\ i = 1
    /\ past = <<>>
    /\ lines = <<>>
    /\ prompt = <<>>
    /\ completion = <<>>
    /\ run = 1
    /\ firstRun = NoFiles

\* One snapshot: a pull request and an empty output directory, or one with
\* absent fields whose output file may be there already.
Init ==
    \/ \E a \in RichPRs, mc \in ContextSizes : InitWith(<<a>>, {}, mc)
    \/ \E a \in EdgePRs, pre \in SUBSET {1} : InitWith(<<a>>, pre, 8)

\* Two snapshots.
InitIso ==
    \E a \in IsoPRs({0, 1}), b \in IsoPRs({2}), pre \in SUBSET {2}, mc \in {2, 3} :
        InitWith(<<a, b>>, pre, mc)

(***************************************************************************)
(* The loop over the snapshots                                              *)
(***************************************************************************)
loopVars == <<events, i, past, lines, prompt, completion>>
runVars == <<snapshots, preexisting, max_context, run, firstRun>>

SkipMissingNumber ==
    /\ pc = "next_pr" /\ k <= Len(snapshots)
    /\ pr.prNumber = 0
    /\ k' = k + 1
    /\ UNCHANGED <<pc, existing, written, loopVars, runVars>>

SkipExisting ==
    /\ pc = "next_pr" /\ k <= Len(snapshots)
    /\ pr.prNumber # 0
    /\ pr.prNumber \in existing
    /\ k' = k + 1
    /\ UNCHANGED <<pc, existing, written, loopVars, runVars>>

KeepAccumulators == past' = past /\ lines' = lines

\* past = [], lines = [], csv_rows = []
ResetAccumulators == past' = <<>> /\ lines' = <<>>

StartPR ==
    /\ pc = "next_pr" /\ k <= Len(snapshots)
    /\ pr.prNumber # 0
    /\ pr.prNumber \notin existing
    /\ events' = SortByTs(Tagged(pr))
    /\ ResetAccumulators
    /\ i' = 1
    /\ pc' = "loop"
    /\ UNCHANGED <<k, existing, written, prompt, completion, runVars>>

(***************************************************************************)
(* The loop over the events of one pull request                             *)
(***************************************************************************)
AppendEvent ==
    /\ pc = "loop" /\ i <= Len(events)
    /\ events[i].kind # "commit"
    /\ past' = Append(past, events[i])
    /\ i' = i + 1
    /\ UNCHANGED <<k, pc, existing, written, events, lines, prompt, completion, runVars>>

SkipEmptyDiff ==
    /\ pc = "loop" /\ i <= Len(events)
    /\ events[i].kind = "commit"
    /\ DiffIsEmpty(events[i])
    /\ i' = i + 1
    /\ UNCHANGED <<k, pc, existing, written, events, past, lines, prompt, completion, runVars>>

RenderCommit ==
    /\ pc = "loop" /\ i <= Len(events)
    /\ events[i].kind = "commit"
    /\ ~DiffIsEmpty(events[i])
    /\ prompt' = Join(UserParts(pr, past, events[i]))
    /\ completion' = Completion(events[i])
    /\ pc' = "rendered"
    /\ UNCHANGED <<k, existing, written, events, i, past, lines, runVars>>

prompt_tokens == Encode(prompt)
completion_tokens == Encode(completion)
total_tokens == Len(prompt_tokens) + Len(completion_tokens)
num_prompt_tokens_allowed == max_context - Len(completion_tokens)

SkipOversized ==
    /\ pc = "rendered"
    /\ Len(completion_tokens) > max_context
    /\ i' = i + 1
    /\ pc' = "loop"
    /\ UNCHANGED <<k, existing, written, events, past, lines, prompt, completion, runVars>>

SkipNoRoom ==
    /\ pc = "rendered"
    /\ Len(completion_tokens) <= max_context
    /\ total_tokens > max_context
    /\ ~HasRoom(num_prompt_tokens_allowed)
    /\ i' = i + 1
    /\ pc' = "loop"
    /\ UNCHANGED <<k, existing, written, events, past, lines, prompt, completion, runVars>>

EmitTruncated ==
    /\ pc = "rendered"
    /\ Len(completion_tokens) <= max_context
    /\ total_tokens > max_context
    /\ HasRoom(num_prompt_tokens_allowed)
    /\ prompt' = Truncated(prompt_tokens, num_prompt_tokens_allowed)
    /\ lines' = Append(lines, Row(events[i], prompt', completion))
    /\ past' = Append(past, events[i])
    /\ i' = i + 1
    /\ pc' = "loop"
    /\ UNCHANGED <<k, existing, written, events, completion, runVars>>

EmitWhole ==
    /\ pc = "rendered"
    /\ Len(completion_tokens) <= max_context
    /\ total_tokens <= max_context
    /\ lines' = Append(lines, Row(events[i], prompt, completion))
    /\ past' = Append(past, events[i])
    /\ i' = i + 1
    /\ pc' = "loop"
    /\ UNCHANGED <<k, existing, written, events, prompt, completion, runVars>>

\* The output file is written only when there is an example.
FinishPR ==
    /\ pc = "loop" /\ i > Len(events)
    /\ IF lines # <<>>
       THEN /\ written' = [written EXCEPT ![pr.prNumber] = lines]
            /\ existing' = existing \cup {pr.prNumber}
       ELSE UNCHANGED <<written, existing>>
    /\ k' = k + 1
    /\ pc' = "next_pr"
    /\ UNCHANGED <<loopVars, runVars>>

Reverse(s) == [j \in 1..Len(s) |-> s[Len(s) + 1 - j]]

\* The program is run again on the same snapshots, whose files sort the
\* other way round, with the output directory as it was.
Rerun ==
    /\ pc = "next_pr" /\ k > Len(snapshots)
    /\ run = 1
    /\ run' = 2
    /\ firstRun' = written
    /\ snapshots' = Reverse(snapshots)
    /\ existing' = preexisting
    /\ written' = NoFiles
    /\ k' = 1
    /\ events' = <<>> /\ i' = 1 /\ past' = <<>> /\ lines' = <<>>
    /\ prompt' = <<>> /\ completion' = <<>>
    /\ UNCHANGED <<pc, preexisting, max_context>>

Next ==
    \/ SkipMissingNumber
    \/ SkipExisting
    \/ StartPR
    \/ AppendEvent
    \/ SkipEmptyDiff
    \/ RenderCommit
    \/ SkipOversized
    \/ SkipNoRoom
    \/ EmitTruncated
    \/ EmitWhole
    \/ FinishPR

NextIso == Next \/ Rerun

Spec == Init /\ [][Next]_vars

SpecIso == InitIso /\ [][NextIso]_vars

(***************************************************************************)
(* Vocabulary of the properties                                             *)
(***************************************************************************)
Range(s) == {s[j] : j \in 1..Len(s)}

EventKinds == {"comment", "review", "commit"}

Rank(kind) == IF kind = "comment" THEN 1 ELSE IF kind = "review" THEN 2 ELSE 3

\* The position in the timeline of the event a unit was rendered from.
PosOf(u) == CHOOSE j \in 1..Len(events) : Unit(events[j]) = u

EventOf(u) == events[PosOf(u)]

\* The commit event an example was emitted for.
CommitOf(row) == EventOf(<<"commit", row.id>>)

Measure(text) == Len(Encode(text))

Combined(row) == Measure(row.prompt) + Measure(row.completion)

\* The positions of a text that hold units of the given sources.
Places(text, us) == {j \in 1..Len(text) : text[j] \in us}

Rendered(text) == {u \in Range(text) : u[1] \in EventKinds}

HasRow(e) == \E a \in 1..Len(lines) : lines[a].id = e.idx

\* The commit events the loop has dealt with.
Visited == {j \in 1..(i - 1) : events[j].kind = "commit"}

Finished == pc = "next_pr" /\ k > Len(snapshots)

(***************************************************************************)
(* C5, C6: the timeline                                                     *)
(***************************************************************************)
\* C5: the merged timeline is non-decreasing in timestamp: every two adjacent
\* events e1, e2 satisfy e1.ts <= e2.ts.
C5_TimelineSorted ==
    \A j \in 1..(Len(events) - 1) : events[j].ts <= events[j + 1].ts

\* A timeline of three events built from commits recorded latest first.
C5_Witness ==
    /\ pc = "loop"
    /\ Len(events) >= 3
    /\ Len(pr.commitsMeta) = 2
    /\ pr.commitsMeta[1].committedDate > pr.commitsMeta[2].committedDate

\* C6: two events of different streams with the same timestamp stand in the
\* timeline in the order comment, review, commit.
C6_TieBreak ==
    \A j \in 1..Len(events) : \A m \in (j + 1)..Len(events) :
        (events[j].ts = events[m].ts /\ events[j].kind # events[m].kind)
            => Rank(events[j].kind) < Rank(events[m].kind)

\* A comment, a review and a commit that all carry one timestamp.
C6_Witness ==
    /\ pc = "loop"
    /\ \E j \in 1..Len(events) :
          /\ j + 2 <= Len(events)
          /\ events[j].kind = "comment"
          /\ events[j + 1].kind = "review"
          /\ events[j + 2].kind = "commit"
          /\ events[j].ts = events[j + 2].ts

(***************************************************************************)
(* C7, C4, C3: emission and size enforcement                                *)
(***************************************************************************)
\* A commit whose example size enforcement discards: its completion alone
\* fills or exceeds the budget (a prompt is never empty).
Discarded(e) == Measure(Completion(e)) >= max_context

\* C7: every commit event yields at most one Example: none when its diff is
\* empty, exactly one when its diff is not empty and size enforcement does not
\* discard it; the Examples stand in the order of their commits in the timeline.
C7_OneExamplePerCommit ==
    /\ \A a \in 1..Len(lines) : \A b \in (a + 1)..Len(lines) :
          /\ lines[a].id # lines[b].id
          /\ PosOf(<<"commit", lines[a].id>>) < PosOf(<<"commit", lines[b].id>>)
    /\ \A a \in 1..Len(lines) :
          /\ PosOf(<<"commit", lines[a].id>>) \in Visited
          /\ CommitOf(lines[a]).diff # 0
    /\ \A j \in Visited :
          /\ events[j].diff = 0 => ~HasRow(events[j])
          /\ (events[j].diff # 0 /\ ~Discarded(events[j])) => HasRow(events[j])

\* The loop is over: a commit with an empty diff yielded nothing and a
\* commit with a diff, recorded after it but dated before it, its Example.
C7_Witness ==
    /\ pc = "loop" /\ i > Len(events)
    /\ \E j \in Visited : \E m \in Visited :
          /\ j < m
          /\ events[j].idx > events[m].idx
          /\ events[m].diff = 0
          /\ HasRow(events[j])

\* C4: a commit whose completion alone measures more than max_context, or for
\* which the truncation leaves no room for the prompt, yields no Example, and
\* the commits after it are processed all the same: each of them that
\* qualifies has its Example.
C4_DropAndContinue ==
    \A j \in Visited :
        LET m_c == Measure(Completion(events[j]))
        IN  /\ m_c > max_context => ~HasRow(events[j])
            /\ (m_c <= max_context /\ max_context - m_c <= 0) => ~HasRow(events[j])
            /\ (events[j].diff # 0 /\ m_c < max_context) => HasRow(events[j])

\* An oversized commit and a commit without room were dropped, and a later
\* commit has its Example.
C4_Witness ==
    \E j \in Visited : \E m \in Visited :
        /\ j < m
        /\ events[j].diff # 0
        /\ Measure(Completion(events[j])) >= max_context
        /\ HasRow(events[m])

\* C3: when the completion fits, prompt and completion together do not, and
\* max_context - m_c > 0, the Example's prompt is the last (max_context - m_c)
\* tokens of the rendered prompt and its completion is the rendered one; and
\* every Example measures at most max_context in all.
C3_Truncation ==
    /\ [](\A a \in 1..Len(lines) : Combined(lines[a]) <= max_context)
    /\ [][(/\ pc = "rendered"
           /\ Measure(completion) <= max_context
           /\ Measure(prompt) + Measure(completion) > max_context
           /\ max_context - Measure(completion) > 0)
          => LET toks == Encode(prompt)
                 n == max_context - Measure(completion)
                 kept == [j \in 1..n |-> toks[Len(toks) - n + j]]
             IN  /\ Len(lines') = Len(lines) + 1
                 /\ lines'[Len(lines')].prompt = Decode(kept)
                 /\ lines'[Len(lines')].completion = completion
                 /\ lines'[Len(lines')].id = events[i].idx]_vars

\* An Example whose prompt lost its whole header to the truncation.
C3_Witness ==
    /\ pc = "loop"
    /\ lines # <<>>
    /\ Combined(lines[Len(lines)]) = max_context
    /\ H \notin Range(lines[Len(lines)].prompt)
    /\ Rendered(lines[Len(lines)].prompt) # {}

(***************************************************************************)
(* C2, C10, C1, C9: what a prompt renders                                   *)
(***************************************************************************)
\* C2, as claimed: the prompt of an Example renders no event whose timestamp
\* is greater than or equal to that of the Example's commit.
C2_NothingAtOrAfter ==
    \A a \in 1..Len(lines) : \A u \in Rendered(lines[a].prompt) :
        EventOf(u).ts < CommitOf(lines[a]).ts

\* C2, amended: the prompt of an Example renders no event whose timestamp is
\* greater than that of the Example's commit, and no commit whose timestamp is
\* equal to it; a comment or a review of the same timestamp, standing before
\* the commit in the timeline, is rendered.
C2_NothingAfter ==
    \A a \in 1..Len(lines) : \A u \in Rendered(lines[a].prompt) :
        /\ EventOf(u).ts <= CommitOf(lines[a]).ts
        /\ PosOf(u) < PosOf(<<"commit", lines[a].id>>)
        /\ u[1] = "commit" => EventOf(u).ts < CommitOf(lines[a]).ts

\* An Example whose prompt renders a comment of its commit's timestamp, for
\* a commit that follows another commit of that same timestamp.
C2_Witness ==
    \E a \in 1..Len(lines) :
        /\ \E u \in Rendered(lines[a].prompt) :
              u[1] = "comment" /\ EventOf(u).ts = CommitOf(lines[a]).ts
        /\ \E j \in Visited :
              /\ j < PosOf(<<"commit", lines[a].id>>)
              /\ events[j].ts = CommitOf(lines[a]).ts

\* The nearest commit event before position j of the timeline (0: none).
PriorCommit(j) ==
    LET C == {m \in 1..(j - 1) : events[m].kind = "commit"}
    IN  IF C = {} THEN 0 ELSE CHOOSE m \in C : \A q \in C : q <= m

\* The text holds the whole rendering of commit P, after every unit of the
\* header and ahead of every rendered comment and review, and these follow
\* each other in timeline order.
WellPlaced(text, P) ==
    LET ps == Places(text, {Unit(P)})
        hs == Places(text, {H})
        ss == {j \in 1..Len(text) : text[j][1] \in {"comment", "review"}}
    IN  /\ Cardinality(ps) = 1 + P.diff
        /\ \A x \in hs : \A y \in ps : x < y
        /\ \A y \in ps : \A z \in ss : y < z
        /\ \A y \in ss : \A z \in ss : y < z => PosOf(text[y]) <= PosOf(text[z])

C1_EmptyDiffIsBoundary ==
    \A a \in 1..Len(lines) : \A j \in Visited :
        (events[j].diff = 0 /\ j < PosOf(<<"commit", lines[a].id>>))
            => \A u \in Rendered(lines[a].prompt) :
                   u[1] = "commit" \/ PosOf(u) > j

\* C9: a commit event the loop has dealt with is in the history buffer when
\* the next event is processed, also when size enforcement discarded its
\* Example, so that the backward search finds it.
C9_VisitedCommitInPast ==
    pc = "loop" =>
        \A j \in Visited :
            events[j].diff # 0 => \E m \in 1..Len(past) : past[m] = events[j]

(***************************************************************************)
(* C8: isolation                                                            *)
(***************************************************************************)
\* C8: the Examples written for each pull request are the same whichever of
\* the two pull requests was processed first.
C8_OrderIndependent == (run = 2 /\ Finished) => written = firstRun

\* Both orders were run and both pull requests have their Examples.
C8_Witness ==
    /\ run = 2 /\ Finished
    /\ written[1] # <<>> /\ written[2] # <<>>
    /\ \E u \in Rendered(written[2][1].prompt) : u[1] = "comment"

====
